---- MODULE Spec2Model ----
(***************************************************************************)
(* Model of maud_macros/src/render.rs: the Renderer that accumulates the   *)
(* statements of a markup closure, and the execution of the closure that   *)
(* into_expr builds from them.                                             *)
(*                                                                         *)
(* A text is a sequence of one-character strings.  A statement is one of   *)
(*   [op |-> "expr", try, expr |-> e]      try!(e);  (e; when try is FALSE)*)
(*   [op |-> "if",  cond, body, else]      if cond { body } [else {..}]    *)
(*   [op |-> "for", pat, iter, body]       for pat in iter { body }        *)
(* and an expression e under try! is one of                                *)
(*   [call |-> "write_str", w, s]          $w.write_str($s)                *)
(*   [call |-> "write_fmt", w, escaper, arg]                               *)
(*        ::maud::rt::write_fmt($w, $arg), or the same through             *)
(*        &mut ::maud::rt::Escaper { inner: $w } when escaper is TRUE.     *)
(***************************************************************************)
EXTENDS Integers, Sequences, FiniteSets, TLC

\* ------------------------------------------------------------------ bounds

\* Renderers that can exist in one behaviour: ids 0 .. MaxRenderers-1.
MaxRenderers == 3
\* Appending calls in one behaviour of Spec (any renderer, any order), and the
\* length of the call sequence in one behaviour of SpecSplice.
MaxCalls == 2
\* Appending calls in one behaviour of SpecRun (depth-first lowering).
MaxStmts == 3
\* The sink can be set to fail on write 1 .. MaxFail (0: it never fails).
MaxFail == 2

\* ------------------------------------------------------------------ inputs

Ids == 0 .. (MaxRenderers - 1)

\* enum Escape
PassThru == "PassThru"
Escape == "Escape"
EscapeModes == {PassThru, Escape}

\* Arguments of string(): a text of a plain and a markup character.
Markup == <<"a", "<">>
Texts == { Markup }
\* Element and attribute names: one of a plain character and one that
\* maud::escape would change.
Names == { <<"p", "&">> }

\* Spliced expressions: the variable x (bound by the enclosing for pattern, or
\* by the scope around the markup), and a value whose Display fails.
VarExpr == [kind |-> "var"]
BadExpr == [kind |-> "bad"]
\* Arguments of splice(): the variable in either mode, the failing value in one.
SpliceArgs == { <<VarExpr, PassThru>>, <<VarExpr, Escape>>, <<BadExpr, Escape>> }

\* if conditions, for patterns and iterables are threaded through opaquely.
Conds == BOOLEAN
Pats == { "x" }
Iters == { <<>>, <<"1", "&">> }

\* What the sink holds before the closure is called.
InitContents == { <<"#">> }

\* The value of x in the scope around the markup.
OuterX == "<"

None == <<>>
Some(v) == <<v>>

\* std::fmt::Error as returned by the sink, and as returned by a Display impl.
SinkErr == "fmt::Error from the sink"
RenderErr == "fmt::Error from Display"

\* ------------------------------------------------------------------ maud::escape

EscapeChar(c) ==
    CASE c = "&" -> <<"&", "a", "m", "p", ";">>
      [] c = "<" -> <<"&", "l", "t", ";">>
      [] c = ">" -> <<"&", "g", "t", ";">>
      [] c = "\"" -> <<"&", "q", "u", "o", "t", ";">>
      [] OTHER -> <<c>>

RECURSIVE maud_escape(_)
maud_escape(s) ==
    IF s = <<>> THEN <<>> ELSE EscapeChar(Head(s)) \o maud_escape(Tail(s))

\* ------------------------------------------------------------------ Renderer

VARIABLES
    rs,      \* rs[i]: the Renderer with id i, [stmts, w]
    life,    \* life[i]: "free" (not created), "live", or "moved" (consumed)
    vecs,    \* vecs[i]: None, or Some(v): the Vec<P<Stmt>> into_stmts(i) returned, not yet passed on
    prog,    \* None, or Some(closure): the expression into_expr returned
    stack,   \* the blocks of the closure being executed, innermost last
    sink,    \* the caller's sink: [out, init, calls, failAt]
    result,  \* [tag, err]: "none" (not called), "running", or the closure's "Ok" or "Err"
    raised,  \* None, or Some([err, depth]): the last failure of a statement's expression, and the depth of its block
    ncalls   \* appending calls made so far

vars == <<rs, life, vecs, prog, stack, sink, result, raised, ncalls>>

\* struct Renderer { cx, stmts, w }
Renderer(stmts, w) == [stmts |-> stmts, w |-> w]

\* Renderer::new
new == Renderer(<<>>, "w")

\* fork that copies the statements of self.
fork_copy(self) == Renderer(self.stmts, self.w)

\* Renderer::fork
fork(self) == Renderer(<<>>, self.w)

\* into_stmts that loses the last statement.
into_stmts_truncated(self) ==
    IF self.stmts = <<>> THEN <<>> ELSE SubSeq(self.stmts, 1, Len(self.stmts) - 1)

\* Renderer::into_stmts
into_stmts(self) == self.stmts

\* Renderer::into_expr: the closure |$w| { $stmts Ok(()) } given to make_markup
into_expr(self) == [w |-> self.w, stmts |-> self.stmts]

\* push_stmts that puts the given statements before the ones held.
push_stmts_front(self, v) == [self EXCEPT !.stmts = v \o @]

\* Renderer::push_stmts
push_stmts(self, v) == [self EXCEPT !.stmts = @ \o v]

\* push_try with the statement put first instead of last.
push_try_front(self, expr) ==
    [self EXCEPT !.stmts = << [op |-> "expr", try |-> TRUE, expr |-> expr] >> \o @]

\* push_try without the try!: the statement is the bare expression.
push_try_unchecked(self, expr) ==
    [self EXCEPT !.stmts = Append(@, [op |-> "expr", try |-> FALSE, expr |-> expr])]

\* Renderer::push_try
push_try(self, expr) ==
    [self EXCEPT !.stmts = Append(@, [op |-> "expr", try |-> TRUE, expr |-> expr])]

\* Renderer::write
write(self, s) ==
    push_try(self, [call |-> "write_str", w |-> self.w, s |-> s])

\* string that never escapes.
string_raw(self, s, escape) == write(self, s)

\* Renderer::string
string(self, s, escape) ==
    write(self, IF escape = Escape THEN maud_escape(s) ELSE s)

\* splice that never goes through the Escaper.
splice_raw(self, expr, escape) ==
    push_try(self, [call |-> "write_fmt", w |-> self.w, escaper |-> FALSE, arg |-> expr])

\* Renderer::splice
splice(self, expr, escape) ==
    push_try(self, [call |-> "write_fmt", w |-> self.w,
                    escaper |-> (escape = Escape), arg |-> expr])

\* Renderer::element_open_start
element_open_start(self, name) == write(write(self, <<"<">>), name)

\* Renderer::attribute_start
attribute_start(self, name) ==
    write(write(write(self, <<" ">>), name), <<"=", "\"">>)

\* Renderer::attribute_empty
attribute_empty(self, name) == write(write(self, <<" ">>), name)

\* Renderer::attribute_end
attribute_end(self) == write(self, <<"\"">>)

\* Renderer::element_open_end
element_open_end(self) == write(self, <<">">>)

\* element_close that escapes the name.
element_close_escaped(self, name) ==
    write(write(write(self, <<"<", "/">>), maud_escape(name)), <<">">>)

\* Renderer::element_close
element_close(self, name) ==
    write(write(write(self, <<"<", "/">>), name), <<">">>)

\* emit_if that forgets the else body.
emit_if_no_else(self, if_cond, if_body, else_body) ==
    [self EXCEPT !.stmts = Append(@, [op |-> "if", cond |-> if_cond,
                                      body |-> if_body, else |-> None])]

\* emit_if that emits nothing for an empty body.
emit_if_skip_empty(self, if_cond, if_body, else_body) ==
    IF if_body = <<>> THEN self
    ELSE [self EXCEPT !.stmts = Append(@, [op |-> "if", cond |-> if_cond,
                                           body |-> if_body, else |-> else_body])]

\* Renderer::emit_if
emit_if(self, if_cond, if_body, else_body) ==
    [self EXCEPT !.stmts = Append(@, [op |-> "if", cond |-> if_cond,
                                      body |-> if_body, else |-> else_body])]

\* emit_for that emits the body once, outside any loop.
emit_for_once(self, pattern, iterable, body) ==
    [self EXCEPT !.stmts = Append(@, [op |-> "if", cond |-> TRUE,
                                      body |-> body, else |-> None])]

\* emit_for whose body drops the results of its writes.
emit_for_detached(self, pattern, iterable, body) ==
    [self EXCEPT !.stmts = Append(@, [op |-> "for", pat |-> pattern, iter |-> iterable,
        body |-> [k \in DOMAIN body |->
                    IF body[k].op = "expr" THEN [body[k] EXCEPT !.try = FALSE]
                    ELSE body[k]]])]

\* emit_for that leaves the body out of the loop.
emit_for_no_body(self, pattern, iterable, body) ==
    [self EXCEPT !.stmts = Append(@, [op |-> "for", pat |-> pattern,
                                      iter |-> iterable, body |-> <<>>])]

\* Renderer::emit_for
emit_for(self, pattern, iterable, body) ==
    [self EXCEPT !.stmts = Append(@, [op |-> "for", pat |-> pattern,
                                      iter |-> iterable, body |-> body])]

\* ------------------------------------------------------------------ lowering

Init ==
    /\ rs = [i \in Ids |-> new]
    /\ life = [i \in Ids |-> IF i = 0 THEN "live" ELSE "free"]
    /\ vecs = [i \in Ids |-> None]
    /\ prog = None
    /\ stack = <<>>
    /\ sink = [out |-> <<>>, init |-> <<>>, calls |-> 0, failAt |-> 0]
    /\ result = [tag |-> "none", err |-> "-"]
    /\ raised = None
    /\ ncalls = 0

\* Lowering happens when the macro is expanded, execution when the program runs.
Lowering == prog = None

\* A renderer that still takes calls after into_stmts or into_expr took it.
LiveAfterMove(i) == Lowering /\ life[i] # "free"

\* A call takes a renderer that exists and has not been moved.
Live(i) == Lowering /\ life[i] = "live"

ExecIdle == UNCHANGED <<stack, sink, result, raised>>

\* An appending call whose statements land in every live renderer.
AppendedShared(i, r) ==
    /\ rs' = [j \in Ids |-> IF life[j] = "live" THEN r ELSE rs[j]]
    /\ ncalls' = ncalls + 1
    /\ UNCHANGED <<life, vecs, prog>>
    /\ UNCHANGED <<stack, sink, result, raised>>

\* An appending call on renderer i: self becomes r.
Appended(i, r) ==
    /\ rs' = [rs EXCEPT ![i] = r]
    /\ ncalls' = ncalls + 1
    /\ UNCHANGED <<life, vecs, prog>>
    /\ ExecIdle

\* An appending call on renderer i that is given the vectors of J.
AppendedWith(i, r, J) ==
    /\ rs' = [rs EXCEPT ![i] = r]
    /\ vecs' = [j \in Ids |-> IF j \in J THEN None ELSE vecs[j]]
    /\ ncalls' = ncalls + 1
    /\ UNCHANGED <<life, prog>>
    /\ ExecIdle

\* let r = self.fork(): the new renderer takes the lowest unused id.
CallFork(i) ==
    /\ Live(i)
    /\ \E j \in Ids :
        /\ life[j] = "free"
        /\ \A k \in Ids : life[k] = "free" => j <= k
        /\ rs' = [rs EXCEPT ![j] = fork(rs[i])]
        /\ life' = [life EXCEPT ![j] = "live"]
    /\ UNCHANGED <<vecs, prog, ncalls>>
    /\ ExecIdle

CallString(i) ==
    /\ Live(i)
    /\ \E s \in Texts, escape \in EscapeModes : Appended(i, string(rs[i], s, escape))

CallSplice(i) ==
    /\ Live(i)
    /\ \E a \in SpliceArgs : Appended(i, splice(rs[i], a[1], a[2]))

CallElementOpenStart(i) ==
    /\ Live(i)
    /\ \E name \in Names : Appended(i, element_open_start(rs[i], name))

CallAttributeStart(i) ==
    /\ Live(i)
    /\ \E name \in Names : Appended(i, attribute_start(rs[i], name))

CallAttributeEmpty(i) ==
    /\ Live(i)
    /\ \E name \in Names : Appended(i, attribute_empty(rs[i], name))

CallAttributeEnd(i) ==
    /\ Live(i)
    /\ Appended(i, attribute_end(rs[i]))

CallElementOpenEnd(i) ==
    /\ Live(i)
    /\ Appended(i, element_open_end(rs[i]))

CallElementClose(i) ==
    /\ Live(i)
    /\ \E name \in Names : Appended(i, element_close(rs[i], name))

\* self.emit_if(cond, body, None): the body vector is moved into the call.
CallEmitIf(i) ==
    /\ Live(i)
    /\ \E if_cond \in Conds, j \in Ids :
        /\ vecs[j] # None
        /\ AppendedWith(i, emit_if(rs[i], if_cond, vecs[j][1], None), {j})

\* self.emit_if(cond, body, Some(else_body))
CallEmitIfElse(i) ==
    /\ Live(i)
    /\ \E if_cond \in Conds, j \in Ids, k \in Ids :
        /\ j # k
        /\ vecs[j] # None /\ vecs[k] # None
        /\ AppendedWith(i, emit_if(rs[i], if_cond, vecs[j][1], Some(vecs[k][1])), {j, k})

CallEmitFor(i) ==
    /\ Live(i)
    /\ \E pattern \in Pats, iterable \in Iters, j \in Ids :
        /\ vecs[j] # None
        /\ AppendedWith(i, emit_for(rs[i], pattern, iterable, vecs[j][1]), {j})

\* self.push_stmts(v): the vector is moved into the call.
CallPushStmts(i) ==
    /\ Live(i)
    /\ \E j \in Ids :
        /\ vecs[j] # None
        /\ rs' = [rs EXCEPT ![i] = push_stmts(rs[i], vecs[j][1])]
        /\ vecs' = [vecs EXCEPT ![j] = None]
    /\ UNCHANGED <<life, prog, ncalls>>
    /\ ExecIdle

\* let v = r.into_stmts(): the renderer is moved, the caller holds the vector.
CallIntoStmts(i) ==
    /\ Live(i)
    /\ vecs' = [vecs EXCEPT ![i] = Some(into_stmts(rs[i]))]
    /\ life' = [life EXCEPT ![i] = "moved"]
    /\ rs' = [rs EXCEPT ![i] = new]
    /\ UNCHANGED <<prog, ncalls>>
    /\ ExecIdle

\* r.into_expr(): the renderer is moved and the closure is the expansion's
\* result; whatever else the expansion held goes out of scope.
CallIntoExpr(i) ==
    /\ Live(i)
    /\ prog' = Some(into_expr(rs[i]))
    /\ life' = [j \in Ids |-> IF life[j] = "free" THEN "free" ELSE "moved"]
    /\ rs' = [j \in Ids |-> new]
    /\ vecs' = [j \in Ids |-> None]
    /\ UNCHANGED ncalls
    /\ ExecIdle

\* ------------------------------------------------------------------ execution

\* A block being executed: its statements, the next one, the value of x in it,
\* and for the body of a for loop the items still to come.
Block(code, x) == [code |-> code, pc |-> 1, x |-> x, loop |-> FALSE, rest |-> <<>>]
LoopBlock(code, items) ==
    [code |-> code, pc |-> 1, x |-> Head(items), loop |-> TRUE, rest |-> Tail(items)]

Running == result.tag = "running"
Top == stack[Len(stack)]
AtEnd == Top.pc > Len(Top.code)
Current == Top.code[Top.pc]

\* The stack with the current block past its current statement.
Advanced == [stack EXCEPT ![Len(stack)].pc = @ + 1]

\* fmt::Write::write_str on a sink that fails on call number failAt.
SinkWriteStr(snk, s) ==
    IF snk.calls + 1 = snk.failAt
    THEN [sink |-> [snk EXCEPT !.calls = @ + 1], ok |-> FALSE, err |-> SinkErr]
    ELSE [sink |-> [snk EXCEPT !.calls = @ + 1, !.out = @ \o s], ok |-> TRUE, err |-> "-"]

\* Display of a spliced value.
Render(arg, x) ==
    IF arg.kind = "bad" THEN [ok |-> FALSE, text |-> <<>>]
    ELSE [ok |-> TRUE, text |-> <<x>>]

\* ::maud::rt::write_fmt(w, arg), with w the sink or an Escaper around it.
RtWriteFmt(snk, escaper, arg, x) ==
    LET r == Render(arg, x)
    IN  IF ~r.ok THEN [sink |-> snk, ok |-> FALSE, err |-> RenderErr]
        ELSE SinkWriteStr(snk, IF escaper THEN maud_escape(r.text) ELSE r.text)

\* The value of a statement's expression.
Eval(e, x, snk) ==
    IF e.call = "write_str" THEN SinkWriteStr(snk, e.s)
    ELSE RtWriteFmt(snk, e.escaper, e.arg, x)

\* The caller runs the markup on its sink.
CallMarkup ==
    /\ prog # None
    /\ result.tag = "none"
    /\ \E c \in InitContents, n \in 0 .. MaxFail :
        sink' = [out |-> c, init |-> c, calls |-> 0, failAt |-> n]
    /\ stack' = << Block(prog[1].stmts, OuterX) >>
    /\ result' = [tag |-> "running", err |-> "-"]
    /\ UNCHANGED <<rs, life, vecs, prog, raised, ncalls>>

\* A closure that takes back what it wrote when it returns an error.
ExecExprRollback ==
    /\ Running /\ ~AtEnd /\ Current.op = "expr"
    /\ LET r == Eval(Current.expr, Top.x, sink)
       IN  /\ raised' = IF r.ok THEN raised
                        ELSE Some([err |-> r.err, depth |-> Len(stack)])
           /\ IF r.ok \/ ~Current.try
              THEN /\ sink' = r.sink
                   /\ stack' = Advanced
                   /\ UNCHANGED result
              ELSE /\ sink' = [r.sink EXCEPT !.out = sink.init]
                   /\ stack' = <<>>
                   /\ result' = [tag |-> "Err", err |-> r.err]
    /\ UNCHANGED <<rs, life, vecs, prog, ncalls>>

\* try!(e); : on Err(err) the closure returns Err(err).   e; : the value is dropped.
ExecExpr ==
    /\ Running /\ ~AtEnd /\ Current.op = "expr"
    /\ LET r == Eval(Current.expr, Top.x, sink)
       IN  /\ sink' = r.sink
           /\ raised' = IF r.ok THEN raised
                        ELSE Some([err |-> r.err, depth |-> Len(stack)])
           /\ IF r.ok \/ ~Current.try
              THEN /\ stack' = Advanced
                   /\ UNCHANGED result
              ELSE /\ stack' = <<>>
                   /\ result' = [tag |-> "Err", err |-> r.err]
    /\ UNCHANGED <<rs, life, vecs, prog, ncalls>>

\* if cond { body } else { else_body }
ExecIf ==
    /\ Running /\ ~AtEnd /\ Current.op = "if"
    /\ stack' =
         IF Current.cond THEN Append(Advanced, Block(Current.body, Top.x))
         ELSE IF Current.else # None THEN Append(Advanced, Block(Current.else[1], Top.x))
         ELSE Advanced
    /\ UNCHANGED <<rs, life, vecs, prog, sink, result, raised, ncalls>>

\* for pat in iter { body }: entering the loop
ExecFor ==
    /\ Running /\ ~AtEnd /\ Current.op = "for"
    /\ stack' =
         IF Current.iter # <<>> THEN Append(Advanced, LoopBlock(Current.body, Current.iter))
         ELSE Advanced
    /\ UNCHANGED <<rs, life, vecs, prog, sink, result, raised, ncalls>>

\* The end of a for body: the next item, or the end of the loop.
ExecEndLoop ==
    /\ Running /\ AtEnd /\ Top.loop
    /\ stack' =
         IF Top.rest # <<>>
         THEN [stack EXCEPT ![Len(stack)] = LoopBlock(Top.code, Top.rest)]
         ELSE SubSeq(stack, 1, Len(stack) - 1)
    /\ UNCHANGED <<rs, life, vecs, prog, sink, result, raised, ncalls>>

\* The end of an if or else body.
ExecEndBlock ==
    /\ Running /\ AtEnd /\ ~Top.loop /\ Len(stack) > 1
    /\ stack' = SubSeq(stack, 1, Len(stack) - 1)
    /\ UNCHANGED <<rs, life, vecs, prog, sink, result, raised, ncalls>>

\* The end of the closure: Ok(())
ExecOk ==
    /\ Running /\ AtEnd /\ Len(stack) = 1
    /\ stack' = <<>>
    /\ result' = [tag |-> "Ok", err |-> "-"]
    /\ UNCHANGED <<rs, life, vecs, prog, sink, raised, ncalls>>

Exec ==
    \/ CallMarkup
    \/ ExecExpr
    \/ ExecIf
    \/ ExecFor
    \/ ExecEndLoop
    \/ ExecEndBlock
    \/ ExecOk

\* ------------------------------------------------------------------ specifications

\* Every call of the Renderer's interface, on any renderer in any order.
Next ==
    \/ \E i \in Ids : CallFork(i)
    \/ \E i \in Ids : ncalls < MaxCalls /\ CallString(i)
    \/ \E i \in Ids : ncalls < MaxCalls /\ CallSplice(i)
    \/ \E i \in Ids : ncalls < MaxCalls /\ CallElementOpenStart(i)
    \/ \E i \in Ids : ncalls < MaxCalls /\ CallAttributeStart(i)
    \/ \E i \in Ids : ncalls < MaxCalls /\ CallAttributeEmpty(i)
    \/ \E i \in Ids : ncalls < MaxCalls /\ CallAttributeEnd(i)
    \/ \E i \in Ids : ncalls < MaxCalls /\ CallElementOpenEnd(i)
    \/ \E i \in Ids : ncalls < MaxCalls /\ CallElementClose(i)
    \/ \E i \in Ids : ncalls < MaxCalls /\ CallEmitIf(i)
    \/ \E i \in Ids : ncalls < MaxCalls /\ CallEmitIfElse(i)
    \/ \E i \in Ids : ncalls < MaxCalls /\ CallEmitFor(i)
    \/ \E i \in Ids : CallPushStmts(i)
    \/ \E i \in Ids : CallIntoStmts(i)
    \/ \E i \in Ids : CallIntoExpr(i)
    \/ Exec

Spec == Init /\ [][Next]_vars

\* The renderer a depth-first walk of the template is appending to: the one
\* forked last among the live ones.
Innermost(i) == life[i] = "live" /\ \A j \in Ids : life[j] = "live" => j <= i

\* The calls a depth-first walk of a template of text, splices, conditionals
\* and loops makes, ending with into_expr on the renderer of the whole
\* template, then the execution of the markup.
NextRun ==
    \/ \E i \in Ids : Innermost(i) /\ CallFork(i)
    \/ \E i \in Ids : Innermost(i) /\ ncalls < MaxStmts /\ CallString(i)
    \/ \E i \in Ids : Innermost(i) /\ ncalls < MaxStmts /\ CallSplice(i)
    \/ \E i \in Ids : Innermost(i) /\ ncalls < MaxStmts /\ CallEmitIf(i)
    \/ \E i \in Ids : Innermost(i) /\ ncalls < MaxStmts /\ CallEmitIfElse(i)
    \/ \E i \in Ids : Innermost(i) /\ ncalls < MaxStmts /\ CallEmitFor(i)
    \/ \E i \in Ids : Innermost(i) /\ CallIntoStmts(i)
    \/ Innermost(0) /\ CallIntoExpr(0)
    \/ Exec

SpecRun == Init /\ [][NextRun]_vars

\* ------------------------------------------------------------------ expected output

IsPrefix(a, b) == Len(a) <= Len(b) /\ SubSeq(b, 1, Len(a)) = a

RECURSIVE Flatten(_)
Flatten(chunks) ==
    IF chunks = <<>> THEN <<>> ELSE Head(chunks) \o Flatten(Tail(chunks))

\* The texts a statement list hands to a sink that accepts every write, in
\* order, up to the first value that fails to render (ok is FALSE then).
RECURSIVE Chunks(_, _), ChunksOf(_, _), ChunksEach(_, _)
Chunks(v, x) ==
    IF v = <<>> THEN [chunks |-> <<>>, ok |-> TRUE]
    ELSE LET h == ChunksOf(Head(v), x)
         IN  IF ~h.ok THEN h
             ELSE LET t == Chunks(Tail(v), x)
                  IN  [chunks |-> h.chunks \o t.chunks, ok |-> t.ok]

ChunksOf(st, x) ==
    CASE st.op = "expr" ->
           IF st.expr.call = "write_str" THEN [chunks |-> << st.expr.s >>, ok |-> TRUE]
           ELSE IF st.expr.arg.kind = "bad" THEN [chunks |-> <<>>, ok |-> FALSE]
           ELSE [chunks |-> << IF st.expr.escaper THEN maud_escape(<<x>>) ELSE <<x>> >>,
                 ok |-> TRUE]
      [] st.op = "if" ->
           IF st.cond THEN Chunks(st.body, x)
           ELSE IF st.else # None THEN Chunks(st.else[1], x)
           ELSE [chunks |-> <<>>, ok |-> TRUE]
      [] st.op = "for" -> ChunksEach(st.body, st.iter)

ChunksEach(body, items) ==
    IF items = <<>> THEN [chunks |-> <<>>, ok |-> TRUE]
    ELSE LET h == Chunks(body, Head(items))
         IN  IF ~h.ok THEN h
             ELSE LET t == ChunksEach(body, Tail(items))
                  IN  [chunks |-> h.chunks \o t.chunks, ok |-> t.ok]

\* The same for the markup into_expr returned.
Expected == Chunks(prog[1].stmts, OuterX)

Finished == result.tag \in {"Ok", "Err"}
Ok == [tag |-> "Ok", err |-> "-"]
Err(e) == [tag |-> "Err", err |-> e]

\* ------------------------------------------------------------------ claims

\* The parts of C1, stated below.
C1_Appends ==
    \A i \in Ids :
        (life[i] = "live" /\ life'[i] = "live") => IsPrefix(rs[i].stmts, rs'[i].stmts)
C1_Reified ==
    (prog = None /\ prog' # None) =>
        \E i \in Ids : life[i] = "live" /\ prog'[1].stmts = rs[i].stmts
C1_Output ==
    result = Ok =>
        /\ Expected.ok
        /\ sink.out = sink.init \o Flatten(Expected.chunks)
\* C1 (Order preservation): a call on a renderer leaves the statements it
\* already held in place, as a prefix of the new list; into_expr hands a
\* renderer's list over unchanged; and a run that ends with Ok has written,
\* after the sink's initial content, the texts of the statements in list order.
C1_OrderPreserved == [](C1_Output) /\ [][C1_Appends /\ C1_Reified]_vars

\* Witness of C1: a markup of three writes from two calls, run to Ok.
C1_Witness ==
    /\ result = Ok
    /\ Len(prog[1].stmts) = 3
    /\ Len(Flatten(Expected.chunks)) >= 4

\* C2 (Fail-fast): once the sink has failed its write number failAt, no
\* further write is attempted, the closure has returned the sink's error, and
\* the sink holds exactly the texts of the failAt - 1 writes before it; a run
\* in which nothing fails returns Ok, and only such a run does.
C2_FailFast ==
    /\ (sink.failAt > 0 /\ sink.calls >= sink.failAt) =>
          /\ sink.calls = sink.failAt
          /\ result = Err(SinkErr)
          /\ stack = <<>>
          /\ Len(Expected.chunks) >= sink.failAt
          /\ sink.out = sink.init \o Flatten(SubSeq(Expected.chunks, 1, sink.failAt - 1))
    /\ (Finished /\ raised = None) => result = Ok
    /\ result = Ok =>
          /\ raised = None
          /\ sink.failAt = 0 \/ sink.calls < sink.failAt

\* Witness of C2: the second write failed after one that succeeded, with a
\* write still to come.
C2_Witness ==
    /\ result = Err(SinkErr)
    /\ sink.failAt = 2
    /\ sink.out # sink.init
    /\ Len(Expected.chunks) > 2

\* A run to the end on a sink that accepts every write.
Plain == Finished /\ sink.failAt = 0

\* C3 (Literal escaping boundary): the markup of string(t, Escape) alone, run
\* on a sink that accepts every write, writes escape(t), and that of
\* string(t, PassThru) writes t; the statement is a write_str of the text as
\* escaped when the call was made.
C3_Cases ==
    { [prog |-> Some(into_expr(string(new, t, m))),
       out |-> IF m = Escape THEN maud_escape(t) ELSE t] : t \in Texts, m \in EscapeModes }
C3_LiteralEscaping ==
    \A k \in C3_Cases :
        prog = k.prog =>
            /\ prog[1].stmts[1].expr.call = "write_str"
            /\ Plain => (result = Ok /\ sink.out = sink.init \o k.out)

\* Witness of C3: string("a<", Escape) has run and written "a&lt;".
C3_Witness ==
    /\ prog = Some(into_expr(string(new, Markup, Escape)))
    /\ result = Ok
    /\ sink.out = sink.init \o <<"a", "&", "l", "t", ";">>

\* The parts of C4, stated below.
C4_Step ==
    \A i \in Ids : CallSplice(i) =>
        /\ rs'[i].stmts = Append(rs[i].stmts, rs'[i].stmts[Len(rs'[i].stmts)])
        /\ rs'[i].stmts[Len(rs'[i].stmts)].op = "expr"
        /\ rs'[i].stmts[Len(rs'[i].stmts)].expr.call = "write_fmt"
C4_Rendered(m) == IF m = Escape THEN maud_escape(<<OuterX>>) ELSE <<OuterX>>
C4_Cases ==
    { [prog |-> Some(into_expr(splice(new, VarExpr, m))), out |-> C4_Rendered(m)] :
        m \in EscapeModes }
    \cup
    { [prog |-> Some(into_expr(
                   string(splice(string(new, t[1], PassThru), VarExpr, m), t[2], PassThru))),
       out |-> t[1] \o C4_Rendered(m) \o t[2]] : t \in Texts \X Texts, m \in EscapeModes }
C4_Output ==
    Plain => \A k \in C4_Cases :
        prog = k.prog => (result = Ok /\ sink.out = sink.init \o k.out)
\* C4 (splice): a splice call appends one write_fmt statement and no other;
\* run on a sink that accepts every write, it writes the rendered value
\* escaped under Escape and unchanged under PassThru, and the texts of
\* string(_, PassThru) calls before and after it arrive unescaped.
C4_Splice == [](C4_Output) /\ [][C4_Step]_vars

\* Witness of C4: "a<", then the value "<" spliced with Escape, then "a<".
C4_Witness ==
    /\ prog = Some(into_expr(
                string(splice(string(new, Markup, PassThru), VarExpr, Escape),
                       Markup, PassThru)))
    /\ result = Ok
    /\ sink.out = sink.init \o <<"a", "<", "&", "l", "t", ";", "a", "<">>

\* C5 (Fail-fast through nesting): when a statement's write or render fails,
\* at whatever depth of if and for bodies, the closure has returned that
\* failure and no block of it is left to execute.
C5_NestedFailFast ==
    raised # None =>
        /\ result = Err(raised[1].err)
        /\ stack = <<>>

\* Witness of C5: a failure two bodies deep.
C5_Witness ==
    /\ raised # None
    /\ raised[1].depth = 3
    /\ result.tag = "Err"

\* The parts of C6, stated below.
C6_Grows == (result.tag # "none") => IsPrefix(sink.out, sink'.out)
C6_Written ==
    IF raised[1].err = SinkErr THEN sink.calls - 1 ELSE sink.calls
C6_Kept ==
    raised # None =>
        /\ C6_Written <= Len(Expected.chunks)
        /\ sink.out = sink.init \o Flatten(SubSeq(Expected.chunks, 1, C6_Written))
\* C6 (No rollback): while the closure runs the sink's content only grows at
\* its end, and after a failure it is the initial content followed by the
\* texts of the writes that succeeded before it.
C6_NoRollback == [](C6_Kept) /\ [][C6_Grows]_vars

\* Witness of C6: a failure after a write that succeeded.
C6_Witness ==
    /\ result.tag = "Err"
    /\ sink.out # sink.init

\* Bodies and leading statements the claims about emit_if and emit_for range over.
BodyA == string(new, Markup, PassThru).stmts
BodyEsc == splice(new, VarExpr, Escape).stmts
BodyRaw == splice(new, VarExpr, PassThru).stmts
Bodies == { <<>>, BodyA, BodyEsc, BodyRaw }
OptBodies == { None } \cup { Some(b) : b \in Bodies }
Starts == { new, string(new, Markup, PassThru) }

\* The parts of C7, stated below.
C7_Step ==
    \A i \in Ids : (CallEmitIf(i) \/ CallEmitIfElse(i)) =>
        /\ rs'[i].stmts = Append(rs[i].stmts, rs'[i].stmts[Len(rs'[i].stmts)])
        /\ rs'[i].stmts[Len(rs'[i].stmts)].op = "if"
C7_Branch(c, t, e) ==
    IF c THEN Chunks(t, OuterX).chunks
    ELSE IF e # None THEN Chunks(e[1], OuterX).chunks
    ELSE <<>>
C7_Cases ==
    { [prog |-> Some(into_expr(emit_if(new, c, t, e))),
       out |-> Flatten(C7_Branch(c, t, e))] :
        c \in Conds, t \in Bodies, e \in OptBodies }
    \cup
    { [prog |-> Some(into_expr(string(emit_if(new, c, t, e), Markup, Escape))),
       out |-> Flatten(C7_Branch(c, t, e)) \o maud_escape(Markup)] :
        c \in Conds, t \in Bodies, e \in OptBodies }
C7_Output ==
    Plain => \A k \in C7_Cases :
        prog = k.prog => (result = Ok /\ sink.out = sink.init \o k.out)
\* C7 (emit_if): an emit_if call appends one if statement; run on a sink that
\* accepts every write, the markup writes what the then body writes when the
\* condition holds, what the else body writes when it does not and there is
\* one, nothing otherwise, and goes on with the statement after the if.
C7_EmitIf == [](C7_Output) /\ [][C7_Step]_vars

\* Witness of C7: a false condition ran the else body and not the then body.
C7_Witness ==
    /\ prog = Some(into_expr(emit_if(new, FALSE, BodyA, Some(BodyEsc))))
    /\ result = Ok
    /\ sink.out = sink.init \o maud_escape(<<OuterX>>)

\* C8 (Empty bodies): emit_if and emit_for given empty bodies still append
\* their statement, and the markup of such a statement alone writes nothing
\* and returns Ok.
C8_Cases ==
    { Some(into_expr(emit_if(new, c, <<>>, e))) : c \in Conds, e \in {None, Some(<<>>)} }
    \cup
    { Some(into_expr(emit_for(new, p, it, <<>>))) : p \in Pats, it \in Iters }
C8_EmptyBodies ==
    \A k \in C8_Cases :
        prog = k =>
            /\ Len(prog[1].stmts) = 1
            /\ prog[1].stmts[1].op \in {"if", "for"}
            /\ Finished => (result = Ok /\ sink.out = sink.init /\ sink.calls = 0)

\* Witness of C8: emit_if(true, [], None) has run.
C8_Witness ==
    /\ prog = Some(into_expr(emit_if(new, TRUE, <<>>, None)))
    /\ result = Ok
    /\ sink.out = sink.init

\* The parts of C9, stated below.
C9_Step ==
    \A i \in Ids : CallEmitFor(i) =>
        /\ rs'[i].stmts = Append(rs[i].stmts, rs'[i].stmts[Len(rs'[i].stmts)])
        /\ rs'[i].stmts[Len(rs'[i].stmts)].op = "for"
RECURSIVE C9_Each(_, _)
C9_Each(b, items) ==
    IF items = <<>> THEN <<>>
    ELSE Flatten(Chunks(b, Head(items)).chunks) \o C9_Each(b, Tail(items))
C9_Cases ==
    { [prog |-> Some(into_expr(emit_for(r, p, it, b))),
       out |-> Flatten(Chunks(r.stmts, OuterX).chunks) \o C9_Each(b, it)] :
        r \in Starts, p \in Pats, it \in Iters, b \in Bodies }
    \cup
    { [prog |-> Some(into_expr(emit_for(new, p, it, BodyRaw))), out |-> it] :
        p \in Pats, it \in Iters }
C9_Output ==
    Plain => \A k \in C9_Cases :
        prog = k.prog => (result = Ok /\ sink.out = sink.init \o k.out)
\* C9 (emit_for): an emit_for call appends one for statement; run on a sink
\* that accepts every write, the markup writes what came before the loop and
\* then what the body writes for each item, in the iterable's order; a body
\* that splices the item with PassThru writes the items themselves.
C9_EmitFor == [](C9_Output) /\ [][C9_Step]_vars

\* Witness of C9: the loop over "1", "&" with the item spliced PassThru wrote "1&".
C9_Witness ==
    /\ prog = Some(into_expr(emit_for(new, "x", <<"1", "&">>, BodyRaw)))
    /\ result = Ok
    /\ sink.out = sink.init \o <<"1", "&">>

\* The parts of C10, stated below.
C10_Step ==
    \A i \in Ids :
        /\ (life[i] = "live" /\ life'[i] = "live" /\ rs'[i] # rs[i]) =>
              \A j \in Ids \ {i} : rs'[j] = rs[j] /\ life'[j] = life[j]
        /\ (life[i] = "live" /\ life'[i] = "moved" /\ prog' = None) =>
              /\ vecs'[i] = Some(rs[i].stmts)
              /\ \A j \in Ids \ {i} : rs'[j] = rs[j] /\ life'[j] = life[j] /\ vecs'[j] = vecs[j]
\* C10 (Fork independence): a call that changes the statements of one renderer
\* leaves every other renderer as it was, and into_stmts on one renderer
\* returns that renderer's statements and leaves every other renderer and
\* vector as it was.
C10_ForkIndependence == [][C10_Step]_vars

\* Witness of C10: a parent and two forks, the forks holding different statements.
C10_Witness ==
    /\ \A i \in Ids : i <= 2 => life[i] = "live"
    /\ rs[0].stmts = <<>>
    /\ rs[1].stmts # <<>>
    /\ rs[2].stmts # <<>>
    /\ rs[1].stmts # rs[2].stmts

\* The statements a step appended to renderer i, and the text of a list of
\* write_str statements.
C11_Added(i) == SubSeq(rs'[i].stmts, Len(rs[i].stmts) + 1, Len(rs'[i].stmts))
RECURSIVE C11_Text(_)
C11_Text(v) ==
    IF v = <<>> THEN <<>> ELSE Head(v).expr.s \o C11_Text(Tail(v))
C11_Literal(v) ==
    \A k \in DOMAIN v :
        /\ v[k].op = "expr" /\ v[k].try
        /\ v[k].expr.call = "write_str"
C11_Frame(i) ==
    /\ IsPrefix(rs[i].stmts, rs'[i].stmts)
    /\ rs'[i].w = rs[i].w
    /\ \A j \in Ids \ {i} : rs'[j] = rs[j]
    /\ UNCHANGED <<life, vecs, prog>>
C11_Helper(i, after, text) ==
    (rs'[i] = after /\ Live(i) /\ Appended(i, after)) =>
        /\ C11_Frame(i)
        /\ C11_Literal(C11_Added(i))
        /\ \A k \in DOMAIN C11_Added(i) : C11_Added(i)[k].expr.w = rs[i].w
        /\ C11_Text(C11_Added(i)) = text
C11_Step ==
    \A i \in Ids : (ncalls' # ncalls /\ rs'[i] # rs[i]) =>
        /\ \A n \in Names :
            /\ C11_Helper(i, element_open_start(rs[i], n), <<"<">> \o n)
            /\ C11_Helper(i, attribute_start(rs[i], n), <<" ">> \o n \o <<"=", "\"">>)
            /\ C11_Helper(i, attribute_empty(rs[i], n), <<" ">> \o n)
            /\ C11_Helper(i, element_close(rs[i], n), <<"<", "/">> \o n \o <<">">>)
        /\ C11_Helper(i, attribute_end(rs[i]), <<"\"">>)
        /\ C11_Helper(i, element_open_end(rs[i]), <<">">>)
\* C11 (Structural helpers): a call of element_open_start(n), attribute_start(n),
\* attribute_empty(n), attribute_end(), element_open_end() or element_close(n)
\* appends only try!(w.write_str(..)) statements on the renderer's own w, whose
\* texts together are <n, n=", n (each after a space), ", > and </n>, with the
\* name as given, and changes nothing else of this or any other renderer.
C11_TagGrammar == [][C11_Step]_vars

\* Witness of C11: <p& and then </p&> were appended to one renderer.
C11_Witness ==
    /\ life[0] = "live"
    /\ Len(rs[0].stmts) = 5
    /\ C11_Literal(rs[0].stmts)
    /\ C11_Text(rs[0].stmts) = <<"<", "p", "&", "<", "/", "p", "&", ">">>

\* A step in which emit_if or emit_for appended its statement to renderer i,
\* that statement, and the renderers whose vectors the step took.
C12_Emits(i) ==
    /\ ncalls' = ncalls + 1
    /\ Len(rs'[i].stmts) = Len(rs[i].stmts) + 1
    /\ rs'[i].stmts[Len(rs'[i].stmts)].op \in {"if", "for"}
C12_Stmt(i) == rs'[i].stmts[Len(rs'[i].stmts)]
C12_Taken == { j \in Ids : vecs[j] # None /\ vecs'[j] = None }

\* C12 as claimed (Bodies are reified sub-programs): the vector of statements
\* that into_stmts returned is never what emit_if or emit_for takes as a body.
C12_BodiesAreClosures ==
    [][\A i \in Ids : C12_Emits(i) => C12_Taken = {}]_vars

\* The parts of C12 as amended, stated below.
C12_Bodies(st) ==
    IF st.op = "if" /\ st.else # None THEN << st.body, st.else[1] >> ELSE << st.body >>
C12_Step ==
    \A i \in Ids : C12_Emits(i) =>
        LET b == C12_Bodies(C12_Stmt(i))
        IN  /\ i \notin C12_Taken /\ 0 \notin C12_Taken
            /\ \A j \in C12_Taken : life[j] = "moved"
            /\ \E f \in [DOMAIN b -> C12_Taken] :
                  /\ \A j \in C12_Taken : \E k \in DOMAIN b : f[k] = j
                  /\ \A k \in DOMAIN b : b[k] = vecs[f[k]][1]
C12_Held ==
    \A j \in Ids : vecs[j] # None => (life[j] = "moved" /\ prog = None)
C12_Closed == prog # None => (rs' = rs /\ vecs' = vecs)
\* C12 as amended (Bodies are statement vectors): every body that emit_if or
\* emit_for takes is the vector into_stmts returned for a forked renderer
\* other than the one the statement is appended to, each vector taken is one
\* body of the statement, and the closure into_expr returned is never a body:
\* no statement is appended once it exists.
C12_BodiesAreStmts == [](C12_Held) /\ [][C12_Step /\ C12_Closed]_vars

\* Witness of C12: an if with an else, both bodies written on forks.
C12_Witness ==
    /\ life[0] = "live" /\ life[1] = "moved" /\ life[2] = "moved"
    /\ Len(rs[0].stmts) = 1
    /\ rs[0].stmts[1].op = "if"
    /\ rs[0].stmts[1].body # <<>>
    /\ rs[0].stmts[1].else # None
    /\ rs[0].stmts[1].else # Some(rs[0].stmts[1].body)
    /\ rs[0].stmts[1].else # Some(<<>>)

\* The sink identifiers named by the writes of a statement list.
RECURSIVE C13_Sinks(_)
C13_Sinks(v) ==
    IF v = <<>> THEN {}
    ELSE LET st == Head(v)
         IN  (CASE st.op = "expr" -> { st.expr.w }
                [] st.op = "if" ->
                     C13_Sinks(st.body) \cup (IF st.else = None THEN {} ELSE C13_Sinks(st.else[1]))
                [] st.op = "for" -> C13_Sinks(st.body))
             \cup C13_Sinks(Tail(v))

\* The parts of C13, stated below.
C13_Step ==
    \A j \in Ids : (life[j] = "free" /\ life'[j] = "live") =>
        /\ rs'[j].stmts = <<>>
        /\ \E i \in Ids \ {j} : life[i] = "live" /\ rs'[j].w = rs[i].w
        /\ \A k \in Ids \ {j} : rs'[k] = rs[k] /\ life'[k] = life[k]
        /\ UNCHANGED <<vecs, prog, ncalls>>
C13_SameSink ==
    /\ \A i \in Ids : life[i] = "live" =>
          (rs[i].w = new.w /\ C13_Sinks(rs[i].stmts) \subseteq { new.w })
    /\ prog # None =>
          (prog[1].w = new.w /\ C13_Sinks(prog[1].stmts) \subseteq { new.w })
\* C13 (fork): fork on a renderer, whatever statements it holds, makes a
\* renderer with no statements and the w of the one forked, and leaves every
\* existing renderer as it was; so every renderer made from new() by forks,
\* every write it appends and the closure of into_expr name the same w.
C13_Fork == [](C13_SameSink) /\ [][C13_Step]_vars

\* Witness of C13: a fork of a fork, both parents holding statements, the last
\* fork holding none.
C13_Witness ==
    /\ life[0] = "live" /\ life[1] = "live" /\ life[2] = "live"
    /\ rs[0].stmts # <<>>
    /\ rs[1].stmts # <<>>
    /\ rs[2].stmts = <<>>
    /\ rs[2].w = rs[0].w

\* Interpreting a statement list in sequence against a sink: each statement in
\* turn, stopping at the first failure; [sink, ok, err] as Eval returns.
RECURSIVE C14_Run(_, _, _), C14_RunStmt(_, _, _), C14_RunEach(_, _, _)
C14_Run(v, x, snk) ==
    IF v = <<>> THEN [sink |-> snk, ok |-> TRUE, err |-> "-"]
    ELSE LET h == C14_RunStmt(Head(v), x, snk)
         IN  IF ~h.ok THEN h ELSE C14_Run(Tail(v), x, h.sink)
C14_RunStmt(st, x, snk) ==
    CASE st.op = "expr" -> Eval(st.expr, x, snk)
      [] st.op = "if" ->
           IF st.cond THEN C14_Run(st.body, x, snk)
           ELSE IF st.else # None THEN C14_Run(st.else[1], x, snk)
           ELSE [sink |-> snk, ok |-> TRUE, err |-> "-"]
      [] st.op = "for" -> C14_RunEach(st.body, st.iter, snk)
C14_RunEach(body, items, snk) ==
    IF items = <<>> THEN [sink |-> snk, ok |-> TRUE, err |-> "-"]
    ELSE LET h == C14_Run(body, Head(items), snk)
         IN  IF ~h.ok THEN h ELSE C14_RunEach(body, Tail(items), h.sink)

\* The sink as the caller handed it over.
C14_Start == [out |-> sink.init, init |-> sink.init, calls |-> 0, failAt |-> sink.failAt]

\* The parts of C14, stated below.
C14_Stmts ==
    \A i \in Ids : (life[i] = "live" /\ life'[i] = "moved" /\ prog' = None) =>
        vecs'[i] = Some(rs[i].stmts)
C14_Expr ==
    (prog = None /\ prog' # None) =>
        /\ prog'[1].stmts = into_stmts(rs[0])
        /\ prog'[1].w = rs[0].w
C14_Behaves ==
    Finished =>
        LET r == C14_Run(prog[1].stmts, OuterX, C14_Start)
        IN  /\ sink = r.sink
            /\ result = IF r.ok THEN Ok ELSE Err(r.err)
C14_Empty ==
    (prog = Some(into_expr(new)) /\ Finished) =>
        (result = Ok /\ sink.out = sink.init /\ sink.calls = 0)
\* C14 (The two reifications agree): into_stmts returns the renderer's
\* statements as they are; the closure of into_expr holds the list into_stmts
\* would return for the same renderer, and running it leaves the sink and the
\* result that interpreting that list in sequence, stopping at the first
\* failure and returning Ok otherwise, leaves; the closure of a renderer with
\* no statements writes nothing and returns Ok.
C14_ReificationsAgree ==
    [](C14_Behaves /\ C14_Empty) /\ [][C14_Stmts /\ C14_Expr]_vars

\* Witness of C14: a closure of a write and a loop whose body into_stmts
\* returned has run to Ok through two items.
C14_Witness ==
    /\ result = Ok
    /\ Len(prog[1].stmts) = 2
    /\ prog[1].stmts[1].op = "expr"
    /\ prog[1].stmts[2].op = "for"
    /\ prog[1].stmts[2].body # <<>>
    /\ sink.calls = 3

\* The parts of C15, stated below.
C15_Once ==
    \A i \in Ids : life'[i] # life[i] =>
        \/ life[i] = "free" /\ life'[i] = "live"
        \/ life[i] = "live" /\ life'[i] = "moved"
C15_Dead ==
    \A i \in Ids : life[i] = "moved" =>
        /\ rs'[i] = rs[i]
        /\ vecs'[i] = vecs[i] \/ vecs'[i] = None
C15_ForkOfLive ==
    (\E j \in Ids : life[j] = "free" /\ life'[j] = "live") =>
        \E i \in Ids : life[i] = "live" /\ life'[i] = "live"
C15_Kept ==
    /\ \A i \in Ids : vecs[i] # None => (vecs'[i] = vecs[i] \/ vecs'[i] = None)
    /\ prog # None => (prog' = prog /\ life' = life)
\* C15 (Single-use lifecycle): a renderer is made once and taken at most once,
\* by into_stmts or into_expr; once taken it is never appended to, forked or
\* taken again; and the vector or closure it was turned into is never changed.
C15_SingleUse == [][C15_Once /\ C15_Dead /\ C15_ForkOfLive /\ C15_Kept]_vars

\* Witness of C15: a fork was taken by into_stmts with a statement in it, and
\* its parent appended a statement of its own while the vector was held.
C15_Witness ==
    /\ life[0] = "live" /\ life[1] = "moved"
    /\ vecs[1] # None /\ vecs[1] # Some(<<>>)
    /\ rs[0].stmts # <<>>
    /\ rs[0].stmts # vecs[1][1]

\* ------------------------------------------------------------------ splicing a forked scope

\* Renderer 0 and renderer 1 hold the same statements, and renderer 2 is a fork
\* of renderer 1.  The same calls with the same arguments are made on 0 and on
\* 2; then 2 is taken by into_stmts and the vector is given to push_stmts on 1.
SpliceParents ==
    { new,
      string(new, Markup, Escape),
      emit_for(new, "x", <<"1", "&">>, BodyRaw) }
SpliceBodies == { <<>>, BodyEsc }

InitSplice ==
    /\ \E parent \in SpliceParents :
          rs = [i \in Ids |-> IF i \in {0, 1} THEN parent
                              ELSE IF i = 2 THEN fork(parent) ELSE new]
    /\ life = [i \in Ids |-> IF i <= 2 THEN "live" ELSE "free"]
    /\ vecs = [i \in Ids |-> None]
    /\ prog = None
    /\ stack = <<>>
    /\ sink = [out |-> <<>>, init |-> <<>>, calls |-> 0, failAt |-> 0]
    /\ result = [tag |-> "none", err |-> "-"]
    /\ raised = None
    /\ ncalls = 0

\* One call made on renderer 0 and on renderer 2: they become r0 and r2.
Both(r0, r2) ==
    /\ Live(0) /\ Live(2)
    /\ ncalls < MaxCalls
    /\ rs' = [rs EXCEPT ![0] = r0, ![2] = r2]
    /\ ncalls' = ncalls + 1
    /\ UNCHANGED <<life, vecs, prog>>
    /\ ExecIdle

BothString ==
    \E s \in Texts, escape \in EscapeModes :
        Both(string(rs[0], s, escape), string(rs[2], s, escape))
BothSplice ==
    \E a \in SpliceArgs : Both(splice(rs[0], a[1], a[2]), splice(rs[2], a[1], a[2]))
BothElementOpenStart ==
    \E name \in Names : Both(element_open_start(rs[0], name), element_open_start(rs[2], name))
BothAttributeStart ==
    \E name \in Names : Both(attribute_start(rs[0], name), attribute_start(rs[2], name))
BothAttributeEmpty ==
    \E name \in Names : Both(attribute_empty(rs[0], name), attribute_empty(rs[2], name))
BothAttributeEnd == Both(attribute_end(rs[0]), attribute_end(rs[2]))
BothElementOpenEnd == Both(element_open_end(rs[0]), element_open_end(rs[2]))
BothElementClose ==
    \E name \in Names : Both(element_close(rs[0], name), element_close(rs[2], name))
BothEmitIf ==
    \E if_cond \in Conds, if_body \in SpliceBodies,
       else_body \in { None } \cup { Some(b) : b \in SpliceBodies } :
        Both(emit_if(rs[0], if_cond, if_body, else_body),
             emit_if(rs[2], if_cond, if_body, else_body))
BothEmitFor ==
    \E pattern \in Pats, iterable \in Iters, body \in SpliceBodies :
        Both(emit_for(rs[0], pattern, iterable, body),
             emit_for(rs[2], pattern, iterable, body))

\* r.into_expr() on renderer 0 or 1, the other one staying in scope.
SpliceIntoExpr(i) ==
    /\ Live(i)
    /\ life[2] = "moved" /\ vecs[2] = None
    /\ prog' = Some(into_expr(rs[i]))
    /\ life' = [life EXCEPT ![i] = "moved"]
    /\ rs' = [rs EXCEPT ![i] = new]
    /\ UNCHANGED <<vecs, ncalls>>
    /\ ExecIdle

NextSplice ==
    \/ BothString
    \/ BothSplice
    \/ BothElementOpenStart
    \/ BothAttributeStart
    \/ BothAttributeEmpty
    \/ BothAttributeEnd
    \/ BothElementOpenEnd
    \/ BothElementClose
    \/ BothEmitIf
    \/ BothEmitFor
    \/ CallIntoStmts(2)
    \/ CallPushStmts(1)
    \/ \E i \in {0, 1} : SpliceIntoExpr(i)
    \/ Exec

SpecSplice == InitSplice /\ [][NextSplice]_vars

\* The parts of C16, stated below.
C16_Push ==
    (vecs[2] # None /\ vecs'[2] = None) =>
        /\ rs'[1].stmts = rs[1].stmts \o vecs[2][1]
        /\ rs'[1].w = rs[1].w
        /\ rs'[0] = rs[0]
C16_SameList ==
    (prog = None /\ life[2] = "moved" /\ vecs[2] = None) => rs[1].stmts = rs[0].stmts
C16_SameRun ==
    Finished =>
        \E i \in {0, 1} :
            /\ life[i] = "live"
            /\ LET r == C14_Run(rs[i].stmts, OuterX, C14_Start)
               IN  /\ sink = r.sink
                   /\ result = IF r.ok THEN Ok ELSE Err(r.err)
\* C16 (Splicing a forked scope): push_stmts puts the given statements after
\* the ones the renderer holds, both in their order; after any sequence of
\* appending calls made on a fork, into_stmts on the fork and push_stmts of the
\* vector on the parent, the parent holds the statements that a renderer with
\* the same start holds after the same calls made on it directly, and the
\* closure of either one leaves the sink and the result that the other's
\* statements give.
C16_SpliceInPlace == [](C16_SameList /\ C16_SameRun) /\ [][C16_Push]_vars

\* Witness of C16: a parent holding a statement took two calls' statements
\* from its fork; the closure of one of the two parents has run and written.
C16_Witness ==
    /\ Finished
    /\ ncalls = 2
    /\ \E i \in {0, 1} : life[i] = "live" /\ Len(rs[i].stmts) >= 3
    /\ sink.out # sink.init

====
